---- MODULE Spec2Model ----
(***************************************************************************)
(* Model of the reconnecting, queueing WebSocket client WSClient of        *)
(* src/services/persistence.ts (lines 127-223) together with the browser   *)
(* WebSocket objects it creates and the callbacks it hands to its owner.   *)
(*                                                                         *)
(* The program is single-threaded and event driven: every action below is  *)
(* one complete run of one handler (a public method called by the owner, a *)
(* WebSocket event handler, or a timer callback).                          *)
(*                                                                         *)
(* The module also models the feature extractor of src/utils/analytics.ts  *)
(* (calculateMetrics and hashString) and the log store of                  *)
(* src/services/persistence.ts (saveLog, getLogs, clearLogs). Each part    *)
(* has its own variables and its own specification; a specification leaves *)
(* the variables of the other parts at their initial values:               *)
(*   Spec, FairSpec : the WebSocket client                                 *)
(*   MetricsSpec    : calculateMetrics over a growing key-event buffer     *)
(*   HashSpec       : hashString over code strings                         *)
(*   LogSpec        : saveLog / getLogs / clearLogs on a fresh store       *)
(*   ReadSpec       : getLogs over every stored value                      *)
(*   ProfileSpec    : updateProfile over a sequence of sessions            *)
(*   MouseSpec      : calculateMouseMetrics over a growing sample buffer   *)
(*   CaptureSpec    : KeyboardCapture, the capture callback and the bot    *)
(***************************************************************************)
EXTENDS Integers, Sequences, FiniteSets, Bags, TLC

(* ------------------------------ bounds -------------------------------- *)

\* number of send() calls made by the owner in one behaviour
MaxSends == 2
\* largest value the reconnect-attempt counter is allowed to reach
MaxAttempts == 5
\* number of reconnect timers that may be pending at the same time
MaxTimers == 2
\* number of WebSocket objects that may be alive (not yet CLOSED) at once
MaxChan == 2
\* number of key events the buffer of captured events may hold
MaxKeyEvents == 3
\* length of the code strings handed to hashString
MaxCodeLen == 4
\* number of log entries persisted in one behaviour
MaxSaves == 52
\* only the first MaxWideSaves entries persisted may have text with a
\* character above U+00FF
MaxWideSaves == 2
\* length of the log lists a store written by something else may hold
MaxStored == 2

\* updateProfile calls in one behaviour
MaxSessions == 3
\* number of samples the buffer of mouse samples may hold
MaxMouse == 4
\* number of events the capture callback and the bot may append
MaxCaptured == 12
\* number of times the clock advances
MaxTicks == 3
\* number of KeyboardCapture objects of earlier effect runs
MaxInstances == 2

(* ------------------------- program constants -------------------------- *)

\* scheduleReconnect: const base = 500
ReconnectBase == 500
\* scheduleReconnect: const max = 8000
ReconnectMax == 8000
\* scheduleReconnect: Math.random() * 250, a value in [0, 250)
JitterSpan == 250
\* the jitter values the model draws (whole milliseconds, both ends of [0,250))
Jitters == {0, JitterSpan - 1}

\* type WSStatus
WSStatus == {"idle", "connecting", "open", "closed", "error"}

\* WebSocket.readyState. "ABORTING" is the readyState CLOSING of a socket that
\* was closed before it opened: the client reads it as CLOSING, but such a
\* socket receives no frame and ends with an error event.
ReadyStates == {"CONNECTING", "OPEN", "CLOSING", "ABORTING", "CLOSED"}

\* the states in which a socket can still fire an event
Live == {"CONNECTING", "OPEN", "CLOSING", "ABORTING"}

\* the shapes of an inbound frame that onmessage tells apart:
\*   "malformed" : JSON.parse throws
\*   "noOk"      : parses, but the value is falsy or has no truthy ok field
\*   "ok"        : parses to an object with a truthy ok field
MsgKinds == {"malformed", "noOk", "ok"}

VARIABLES
    urlValid,           \* does new WebSocket(this.url) succeed (fixed per client)
    ws,                 \* WSClient.ws: "null", or the readyState of the socket it refers to
    orphans,            \* bag of the readyStates of the live sockets the client has dropped
    reconnectAttempts,  \* WSClient.reconnectAttempts
    shouldReconnect,    \* WSClient.shouldReconnect
    sendQueue,          \* WSClient.sendQueue
    timers,             \* number of pending setTimeout callbacks of scheduleReconnect
    sent,               \* payload ids handed to WebSocket.send and accepted, in order
    sendCount,          \* number of send() calls made so far
    status,             \* the last status delivered to the onStatus observer
    dispatching,        \* an error event was fired and its close event is due next
    last,               \* what the handler that ran last did (its observable effects)
    keyEvents,          \* App.tsx: the events state, the buffer of captured key events
    metrics,            \* App.tsx: the metrics state, the last result of calculateMetrics
    codeStr,            \* the argument of the last hashString call (UTF-16 code units)
    keyId,              \* the string the last hashString call returned (hex digits)
    storage,            \* localStorage['kbl_logs']
    saveCount,          \* number of log entries persisted so far
    logLast,            \* what the Persistence call that ran last did
    profile,            \* localStorage['kbl_profile']: <<>> or <<the profile stored>>
    sessions,           \* the metrics handed to updateProfile so far, in call order
    lastProfile,        \* the profile the last updateProfile call returned
    mouseEvents,        \* App.tsx: the mouseEvents state, the buffer of mouse samples
    mouseMetrics,       \* what calculateMouseMetrics returns for mouseEvents
    clock,              \* Date.now(), counted from the load of the page
    isMonitoring,       \* App.tsx: the isMonitoring state
    botMode,            \* App.tsx: the botMode state
    botTimer,           \* when the interval of the bot effect fires next; 0: no interval
    kb,                 \* the KeyboardCapture of the current capture effect
    stopped,            \* number of KeyboardCapture objects of earlier effect runs
    captured,           \* App.tsx: the events state as the capture callback and the bot fill it
    strokes             \* number of key transitions made while the capture was active

\* the variables of the WebSocket client
clientVars == <<urlValid, ws, orphans, reconnectAttempts, shouldReconnect,
                sendQueue, timers, sent, sendCount, status, dispatching, last>>

\* the variables of the feature extractor
metricsVars == <<keyEvents, metrics>>
hashVars == <<codeStr, keyId>>

\* the variables of the log store
logVars == <<storage, saveCount, logLast>>

\* the variables of the user profile
profileVars == <<profile, sessions, lastProfile>>

\* the variables of the mouse analysis
mouseVars == <<mouseEvents, mouseMetrics>>

\* the variables of the event capture
captureVars == <<clock, isMonitoring, botMode, botTimer, kb, stopped, captured,
                 strokes>>

vars == <<urlValid, ws, orphans, reconnectAttempts, shouldReconnect, sendQueue,
          timers, sent, sendCount, status, dispatching, last,
          keyEvents, metrics, codeStr, keyId, storage, saveCount, logLast,
          profile, sessions, lastProfile, mouseEvents, mouseMetrics,
          clock, isMonitoring, botMode, botTimer, kb, stopped, captured, strokes>>

(* ----------------------------- helpers -------------------------------- *)

Min(a, b) == IF a < b THEN a ELSE b

RECURSIVE Pow2(_)
Pow2(n) == IF n = 0 THEN 1 ELSE 2 * Pow2(n - 1)

Range(f) == {f[i] : i \in DOMAIN f}

\* the ids of a sequence of payloads
Ids(seq) == [i \in 1..Len(seq) |-> seq[i].id]

\* The client, its sockets and the effects of the running handler as one value,
\* so that a method calling another method is the composition of two operators.
Here(op) ==
    [ ws |-> ws, orphans |-> orphans, att |-> reconnectAttempts,
      should |-> shouldReconnect, q |-> sendQueue, timers |-> timers,
      sent |-> sent, status |-> status,
      op |-> op, notes |-> <<>>, handled |-> FALSE, raised |-> FALSE,
      armed |-> 0, delay |-> 0, flushed |-> 0, msg |-> "-", connects |-> 0 ]

\* this.onStatus(st): the observer is called synchronously
Notify(s, st) == [s EXCEPT !.status = st, !.notes = Append(@, st)]

(* --------------------------- the WebSocket ---------------------------- *)

\* The sockets are told apart only by whether this.ws refers to them: the
\* handlers the client installs on a socket never look at the socket itself.
\* A socket the client has dropped stays alive, with its handlers, until it is
\* CLOSED; a CLOSED socket fires no further event.
Drop(s) ==
    [s EXCEPT !.ws = "null",
              !.orphans = IF s.ws \in Live THEN @ (+) SetToBag({s.ws}) ELSE @]

\* new WebSocket(this.url) followed by the assignment to this.ws: the socket
\* starts CONNECTING; the socket this.ws referred to before is dropped.
NewWebSocket(s) == [Drop(s) EXCEPT !.ws = "CONNECTING"]

\* the number of live sockets
LiveCount(s) == BagCardinality(s.orphans) + (IF s.ws \in Live THEN 1 ELSE 0)

\* WebSocket.close(): the readyState after it. CONNECTING and OPEN sockets
\* start closing, the others are left as they are; it does not throw when
\* called without arguments.
SocketClose(st) ==
    IF st = "OPEN" THEN "CLOSING"
    ELSE IF st = "CONNECTING" THEN "ABORTING"
    ELSE st

\* The outcome of socket.send(JSON.stringify(p)) on a socket in state st:
\*   JSON.stringify throws for a payload that cannot be serialised,
\*   WebSocket.send throws InvalidStateError while CONNECTING,
\*   an OPEN socket takes the data, a CLOSING or CLOSED one discards it.
Transmit(p, st) ==
    IF p.bad THEN "throws"
    ELSE IF st = "CONNECTING" THEN "throws"
    ELSE IF st = "OPEN" THEN "sent"
    ELSE "discarded"

(* ---------------------------- WSClient -------------------------------- *)

\* BackoffDelay without the Math.min(max, ...) cap
BackoffDelayUncapped(k, j) == ReconnectBase * Pow2(k) + j

\* The delay scheduleReconnect computes for attempt counter k and jitter j.
BackoffDelay(k, j) == Min(ReconnectMax, ReconnectBase * Pow2(k)) + j

\* private scheduleReconnect(): every callback it hands to setTimeout is the
\* same closure, so the pending ones are counted; the delay it passes is kept
\* with the effects of the running handler.
ScheduleReconnect(s, j) ==
    LET k == s.att + 1
    IN [s EXCEPT !.att = k, !.timers = @ + 1, !.armed = @ + 1,
                 !.delay = BackoffDelay(k, j)]

\* ConnectIsNoop testing readyState against OPEN alone
ConnectIsNoopOpenOnly(s) == s.ws # "null" /\ s.ws = "OPEN"

\* is the early return of connect() taken
ConnectIsNoop(s) == s.ws # "null" /\ (s.ws = "OPEN" \/ s.ws = "CONNECTING")

\* connect()
Connect(s0, j) ==
    LET s == [s0 EXCEPT !.connects = @ + 1] IN
    IF ConnectIsNoop(s) THEN s
    ELSE LET s1 == Notify(s, "connecting")
         IN IF urlValid
            THEN NewWebSocket(s1)
            ELSE ScheduleReconnect(Notify(s1, "error"), j)

\* Disconnect that forgets the socket without closing it
DisconnectNoClose(s) ==
    LET s1 == [s EXCEPT !.should = FALSE]
    IN Notify(IF s1.ws # "null" THEN Drop(s1) ELSE s1, "closed")

\* disconnect()
Disconnect(s) ==
    LET s1 == [s EXCEPT !.should = FALSE]
        s2 == IF s1.ws # "null"
              THEN Drop([s1 EXCEPT !.ws = SocketClose(s1.ws)])
              ELSE s1
    IN Notify(s2, "closed")

\* Send without the try/catch around ws.send: the exception reaches the caller
SendUncaught(s, p) ==
    IF s.ws = "null" \/ s.ws # "OPEN"
    THEN [s EXCEPT !.q = Append(@, p)]
    ELSE IF Transmit(p, s.ws) = "throws"
         THEN [s EXCEPT !.raised = TRUE]
         ELSE [s EXCEPT !.sent = Append(@, p.id)]

\* send(payload)
Send(s, p) ==
    IF s.ws = "null" \/ s.ws # "OPEN"
    THEN [s EXCEPT !.q = Append(@, p)]
    ELSE IF Transmit(p, s.ws) = "throws"
         THEN [s EXCEPT !.q = Append(@, p)]
         ELSE [s EXCEPT !.sent = Append(@, p.id)]

\* the for loop of flushQueue() over the spliced-out items
RECURSIVE FlushLoop(_, _)
FlushLoop(s, items) ==
    IF items = <<>> THEN s
    ELSE LET p == Head(items)
             r == IF s.ws = "null" THEN "skipped" ELSE Transmit(p, s.ws)
         IN IF r = "throws" THEN [s EXCEPT !.q = Append(@, p)]
            ELSE IF r = "sent" THEN FlushLoop([s EXCEPT !.sent = Append(@, p.id)], Tail(items))
            ELSE FlushLoop(s, Tail(items))

\* FlushQueue walking the spliced-out items from the newest to the oldest
FlushQueueNewestFirst(s) ==
    FlushLoop([s EXCEPT !.q = <<>>, !.flushed = Len(s.q)],
              [i \in 1..Len(s.q) |-> s.q[Len(s.q) + 1 - i]])

\* private flushQueue(): items = this.sendQueue.splice(0) empties the queue
FlushQueue(s) == FlushLoop([s EXCEPT !.q = <<>>, !.flushed = Len(s.q)], s.q)

\* ws.onopen
OnOpen(s) == FlushQueue([Notify(s, "open") EXCEPT !.att = 0])

\* ws.onmessage; throws says whether the onMessage callback raises
OnMessage(s0, kind, throws) ==
    LET s == [s0 EXCEPT !.msg = kind] IN
    IF kind = "malformed" THEN Notify(s, "error")
    ELSE IF kind = "ok"
         THEN LET s1 == [s EXCEPT !.handled = TRUE]
              IN IF throws THEN Notify(s1, "error") ELSE s1
         ELSE s

\* ws.onerror
OnError(s) == Notify(s, "error")

\* OnClose that never schedules a reconnect
OnCloseNoRetry(s, j) == Notify(s, "closed")

\* OnClose that schedules a reconnect without testing shouldReconnect
OnCloseAlwaysRetry(s, j) == ScheduleReconnect(Notify(s, "closed"), j)

\* ws.onclose
OnClose(s, j) ==
    LET s1 == Notify(s, "closed")
    IN IF s1.should THEN ScheduleReconnect(s1, j) ELSE s1

\* TimerCallback that connects without testing shouldReconnect
TimerCallbackUnguarded(s, j) == Connect(s, j)

\* the callback scheduleReconnect hands to setTimeout
TimerCallback(s, j) == IF s.should THEN Connect(s, j) ELSE s

(* ---------------------- analytics.ts: hashString ---------------------- *)

\* hashString: let hash = 5381
HashSeed == 5381
\* hashString: substring(0, 6)
IdLength == 6
\* 2^16. A 32-bit value is kept as two 16-bit halves [hi, lo], so that no
\* intermediate result of the arithmetic below leaves the 32-bit integers.
Half == Pow2(16)

\* The code units the model builds code strings from: '9', 'A', 'y'.
CodeUnits == {57, 65, 121}

\* One round of the loop: hash = ((hash << 5) + hash) + str.charCodeAt(i).
\* hash << 5 is the 32-bit wrap of 32 * hash and the additions are exact
\* (the running value stays far below 2^53), so the running value is
\* congruent modulo 2^32 to 33 * hash + c; the final hash >>> 0 reduces it
\* modulo 2^32. The model carries the residue modulo 2^32.
HashRound(h, c) ==
    LET lo == h.lo * 33 + c
        hi == h.hi * 33 + (lo \div Half)
    IN [hi |-> hi % Half, lo |-> lo % Half]

\* the for loop of hashString over str[i..]
RECURSIVE HashLoop(_, _, _)
HashLoop(h, str, i) ==
    IF i > Len(str) THEN h ELSE HashLoop(HashRound(h, str[i]), str, i + 1)

\* the hexadecimal digits of n > 0, most significant first, no leading zero
RECURSIVE HexDigits(_)
HexDigits(n) == IF n = 0 THEN <<>> ELSE Append(HexDigits(n \div 16), n % 16)

\* the four hexadecimal digits of a 16-bit half, leading zeros kept
Hex4(n) == <<(n \div 4096) % 16, (n \div 256) % 16, (n \div 16) % 16, n % 16>>

\* Number.prototype.toString(16) of an unsigned 32-bit value: no leading zeros
ToString16(h) ==
    IF h.hi = 0 THEN (IF h.lo = 0 THEN <<0>> ELSE HexDigits(h.lo))
    ELSE HexDigits(h.hi) \o Hex4(h.lo)

\* String.prototype.substring(0, n): the first n characters, or all of them
Substring(s, n) == SubSeq(s, 1, Min(n, Len(s)))

\* HashString without the substring(0, 6)
HashStringWhole(str) ==
    ToString16(HashLoop([hi |-> 0, lo |-> HashSeed], str, 1))

\* hashString(str); str is the sequence of the UTF-16 code units of the string
HashString(str) ==
    Substring(ToString16(HashLoop([hi |-> 0, lo |-> HashSeed], str, 1)), IdLength)

(* -------------------- analytics.ts: calculateMetrics ------------------ *)

\* calculateMetrics: if (flight < 2000)
FlightLimit == 2000

\* The events the model draws. A key event is [key, code, timestamp, type].
\* "KeyH" with key "Backspace" is a key whose physical code is not 'Backspace'
\* but which produces Backspace (a remapped layout).
KeyCodes == {"KeyA", "KeyH", "Backspace"}
KeyOf(code) == IF code = "KeyA" THEN "a" ELSE "Backspace"
EventTypes == {"down", "up"}
\* the distance in time of an event from the event before it (Date.now() never
\* goes back); the first event of a buffer is that far from time 0
Gaps == {0, FlightLimit - 1, FlightLimit}

\* the down property of a keyMap entry: undefined, or a number
Undefined == [set |-> FALSE, at |-> 0]
Number(n) == [set |-> TRUE, at |-> n]
\* if (x) for an x that is undefined or a number: undefined and 0 are falsy
Truthy(x) == x.set /\ x.at # 0

\* { totalDwell: 0, count: 0, errors: 0 }
NewEntry == [totalDwell |-> 0, count |-> 0, errors |-> 0, down |-> Undefined]

\* the locals of calculateMetrics before the forEach; raised: a TypeError left
\* the loop
LoopStart ==
    [keyMap |-> [c \in {} |-> NewEntry], flightTimes |-> <<>>,
     backspaceCount |-> 0, lastUpTimestamp |-> 0, raised |-> FALSE]

\* the callback of keyEvents.forEach, run on one event
ForEachBody(a, event) ==
    LET m1 == IF event.code \in DOMAIN a.keyMap THEN a.keyMap
              ELSE a.keyMap @@ (event.code :> NewEntry)
        isBackspace == event.key = "Backspace" /\ event.type = "down"
        bs == IF isBackspace THEN a.backspaceCount + 1 ELSE a.backspaceCount
        m2 == IF isBackspace THEN [m1 EXCEPT !["Backspace"].errors = @ + 1]
              ELSE m1
        flight == event.timestamp - a.lastUpTimestamp
        e == m2[event.code]
    IN IF isBackspace /\ "Backspace" \notin DOMAIN m1
       THEN \* keyMap['Backspace'] is undefined: reading .errors raises
            [a EXCEPT !.keyMap = m1, !.backspaceCount = bs, !.raised = TRUE]
       ELSE IF event.type = "down"
       THEN [a EXCEPT
               !.keyMap = [m2 EXCEPT ![event.code].down = Number(event.timestamp)],
               !.backspaceCount = bs,
               !.flightTimes = IF a.lastUpTimestamp > 0 /\ flight < FlightLimit
                               THEN Append(@, flight) ELSE @]
       ELSE [a EXCEPT
               !.lastUpTimestamp = event.timestamp,
               !.keyMap = IF Truthy(e.down)
                          THEN [m2 EXCEPT ![event.code] =
                                  [totalDwell |-> e.totalDwell + (event.timestamp - e.down.at),
                                   count |-> e.count + 1,
                                   errors |-> e.errors,
                                   down |-> Undefined]]
                          ELSE m2]

\* keyEvents.forEach(...) from event i on; an exception ends the loop
RECURSIVE ForEach(_, _, _)
ForEach(a, events, i) ==
    IF i > Len(events) \/ a.raised THEN a
    ELSE ForEach(ForEachBody(a, events[i]), events, i + 1)

\* a number that may be NaN; a defined number is the fraction num / den
NaN == [nan |-> TRUE, num |-> 0, den |-> 1]
Fraction(n, d) == [nan |-> FALSE, num |-> n, den |-> d]

\* Math.max(0, 100 - ((backspaceCount / totalKeys) * 100)):
\* 0 / 0 is NaN and Math.max(0, NaN) is NaN; b / 0 for b > 0 is Infinity
Accuracy(b, t) ==
    IF t = 0 THEN (IF b = 0 THEN NaN ELSE Fraction(0, 1))
    ELSE IF b > t THEN Fraction(0, 1)
    ELSE Fraction(100 * (t - b), t)

\* what calculateMetrics returns for an empty keyEvents
EmptyMetrics ==
    [raised |-> FALSE, totalKeys |-> 0, backspaces |-> 0,
     accuracy |-> Fraction(100, 1), flightTimes |-> <<>>,
     allKeys |-> [c \in {} |-> NewEntry]]

\* calculateMetrics(keyEvents, mouseEvents, privacyMode), the part computed
\* from keyEvents: totalKeys, backspaces, accuracy, the flight samples (the
\* only input of avgFlightTime and rhythmVariance) and the per-code aggregates
\* (count, totalDwell, errors; avgDwellTime is totalDwell / count, or 0).
\* raised: the call ended with an exception instead of returning.
CalculateMetrics(events) ==
    IF Len(events) = 0 THEN EmptyMetrics
    ELSE LET a == ForEach(LoopStart, events, 1)
             totalKeys == Cardinality({i \in 1..Len(events) : events[i].type = "down"})
         IN IF a.raised THEN [EmptyMetrics EXCEPT !.raised = TRUE]
            ELSE [raised |-> FALSE, totalKeys |-> totalKeys,
                  backspaces |-> a.backspaceCount,
                  accuracy |-> Accuracy(a.backspaceCount, totalKeys),
                  flightTimes |-> a.flightTimes,
                  allKeys |-> a.keyMap]

(* ------------------- persistence.ts: the log store -------------------- *)

\* saveLog: .slice(0, 50)
LogCap == 50

\* A JSON value: a list of log entries, or one of the values that are not a
\* list: null, the number 0, an object.
List(items) == [t |-> "list", items |-> items]
NonList(kind) == [t |-> kind, items |-> <<>>]
NonListKinds == {"null", "zero", "object"}
Null == NonList("null")

\* x || []: null and 0 are falsy, a list and an object are truthy
Falsy(v) == v.t \in {"null", "zero"}

\* What localStorage.getItem(STORAGE_KEY_LOGS) returns:
\*   "absent" : null, the key is not set
\*   "plain"  : JSON.stringify(value)
\*   "base64" : btoa(JSON.stringify(value))
\*   "other"  : a text that is neither
Absent == [enc |-> "absent", value |-> Null]
Plain(v) == [enc |-> "plain", value |-> v]
Base64(v) == [enc |-> "base64", value |-> v]
Other == [enc |-> "other", value |-> Null]

\* The outcome of a call that may throw: ok and the value returned.
Returned(v) == [ok |-> TRUE, value |-> v]
Thrown == [ok |-> FALSE, value |-> Null]

\* JSON.parse(data). btoa(json) is not JSON text: the text of a JSON value
\* starts with one of [ { " - t f n or a digit, so its base64 form starts
\* with one of W e I L d Z b M N O, and no JSON text starts with these.
JSONParse(data) == IF data.enc = "plain" THEN Returned(data.value) ELSE Thrown

\* JSON.parse(atob(data)). For JSON text atob either throws (the text holds
\* [ { " - . or has a length it rejects) or, for a text of digits, true or
\* null, returns bytes that start above 0x7F, which JSON.parse rejects.
ParseDecoded(data) == IF data.enc = "base64" THEN Returned(data.value) ELSE Thrown

\* Does btoa(JSON.stringify(entries)) throw: btoa rejects a string holding a
\* character above U+00FF, and JSON.stringify leaves such characters as they
\* are. wide: the entry's text (activity, description) holds such a character.
BtoaThrows(entries) == \E i \in 1..Len(entries) : entries[i].wide

\* encryptData(data, enabled)
EncryptData(entries, enabled) ==
    IF ~enabled THEN Returned(Plain(List(entries)))
    ELSE IF BtoaThrows(entries) THEN Thrown
    ELSE Returned(Base64(List(entries)))

\* decryptData(data, enabled): both catch blocks included, it never throws
DecryptData(data, enabled) ==
    IF data.enc = "absent" THEN Null
    ELSE LET first == IF ~enabled THEN JSONParse(data) ELSE ParseDecoded(data)
             fallback == JSONParse(data)
         IN IF first.ok THEN first.value
            ELSE IF fallback.ok THEN fallback.value
            ELSE Null

\* Persistence.getLogs(encryptionEnabled): decryptData(data, enabled) || []
GetLogs(data, enabled) ==
    LET v == DecryptData(data, enabled)
    IN IF Falsy(v) THEN List(<<>>) ELSE v

\* Array.prototype.slice(0, n)
Slice(seq, n) == SubSeq(seq, 1, Min(n, Len(seq)))

\* SaveLog without the slice(0, 50)
SaveLogUncapped(data, log, enabled, rejected) ==
    LET logs == GetLogs(data, enabled)
        logToSave == [id |-> log.id, wide |-> log.wide, isEncrypted |-> enabled]
        updated == <<logToSave>> \o logs.items
        text == EncryptData(updated, enabled)
    IN IF logs.t # "list" \/ ~text.ok \/ rejected
       THEN [raised |-> TRUE, storage |-> data]
       ELSE [raised |-> FALSE, storage |-> text.value]

\* Persistence.saveLog(log, encryptionEnabled): the storage after the call and
\* whether the call raised. [logToSave, ...logs] raises for a logs that is an
\* object and not a list; encryptData raises when btoa does; rejected:
\* localStorage.setItem raises (the quota is exceeded).
SaveLog(data, log, enabled, rejected) ==
    LET logs == GetLogs(data, enabled)
        logToSave == [id |-> log.id, wide |-> log.wide, isEncrypted |-> enabled]
        updated == Slice(<<logToSave>> \o logs.items, LogCap)
        text == EncryptData(updated, enabled)
    IN IF logs.t # "list" \/ ~text.ok \/ rejected
       THEN [raised |-> TRUE, storage |-> data]
       ELSE [raised |-> FALSE, storage |-> text.value]

(* ----------------- analytics.ts: calculateMouseMetrics ----------------- *)

\* Pointer samples lie on a grid and move along its axes and diagonals, so
\* every angle is a multiple of 45 degrees. Math.atan2(dy, dx) counted in
\* units of 45 degrees, from -3 to 4; atan2(0, 0) is 0.
Atan2(dy, dx) ==
    IF dy = 0 THEN (IF dx < 0 THEN 4 ELSE 0)
    ELSE IF dy > 0 THEN (IF dx > 0 THEN 1 ELSE IF dx = 0 THEN 2 ELSE 3)
    ELSE (IF dx > 0 THEN -1 ELSE IF dx = 0 THEN -2 ELSE -3)

\* Math.abs
Abs(n) == IF n < 0 THEN -n ELSE n

\* the locals of calculateMouseMetrics before the loop
MouseLoopStart == [totalAngleChange |-> 0, tremors |-> 0, prevAngle |-> 0]

\* the body of the for loop for the index i of the code (i + 1 here, as
\* sequences start at 1): a pair with dt 0 is skipped by continue. dAngle
\* > 0.1 rad holds for every multiple of 45 degrees but 0, and dist < 5 is
\* dx * dx + dy * dy < 25.
MouseLoopBody(a, events, i) ==
    LET p1 == events[i - 1]
        p2 == events[i]
        dt == p2.timestamp - p1.timestamp
        dx == p2.x - p1.x
        dy == p2.y - p1.y
        angle == Atan2(dy, dx)
        dAngle == Abs(angle - a.prevAngle)
    IN IF dt = 0 THEN a
       ELSE IF i > 2
            THEN [totalAngleChange |-> a.totalAngleChange + dAngle,
                  tremors |-> IF dAngle >= 1 /\ dx * dx + dy * dy < 5 * 5
                              THEN a.tremors + 1 ELSE a.tremors,
                  prevAngle |-> angle]
            ELSE [a EXCEPT !.prevAngle = angle]

RECURSIVE MouseLoop(_, _, _)
MouseLoop(a, events, i) ==
    IF i > Len(events) THEN a
    ELSE MouseLoop(MouseLoopBody(a, events, i), events, i + 1)

\* calculateMouseMetrics(events), the part computed from the directions:
\* tremorCount and angularVelocity, held as totalAngleChange (in units of 45
\* degrees) over totalTime. avgVelocity and maxVelocity, which are computed
\* from the distances alone, are left out.
CalculateMouseMetrics(events) ==
    IF Len(events) < 2
    THEN [totalAngleChange |-> 0, totalTime |-> 0, tremorCount |-> 0]
    ELSE LET a == MouseLoop(MouseLoopStart, events, 2)
             totalTime == events[Len(events)].timestamp - events[1].timestamp
         IN [totalAngleChange |-> IF totalTime > 0 THEN a.totalAngleChange ELSE 0,
             totalTime |-> totalTime,
             tremorCount |-> a.tremors]

(* ------------------ persistence.ts: the user profile ------------------ *)

RECURSIVE Pow10(_)
Pow10(n) == IF n = 0 THEN 1 ELSE 10 * Pow10(n - 1)

\* A number of the profile arithmetic is a decimal held as a whole count of
\* units of 10^-5, one digit more than toFixed(4) keeps.
Unit == Pow10(5)
Dec(whole, frac) == whole * Unit + frac

\* a number, NaN, and the null that JSON.parse gives back for a stored NaN
Num(v) == [k |-> "num", v |-> v]
NotANumber == [k |-> "nan", v |-> 0]
JsonNull == [k |-> "null", v |-> 0]

\* JSON.parse(JSON.stringify(x)) of a number: NaN is written as null
Json(x) == IF x.k = "nan" THEN JsonNull ELSE x

\* the step between two decimals of the given number of digits
Step(digits) == Unit \div Pow10(digits)

\* parseFloat((num / den).toFixed(digits)) for num >= 0 counted in units: the
\* decimal of that many digits nearest to the quotient. Half way between two
\* decimals the double that stands for the quotient lies on either side, so
\* both neighbours are results.
ToFixed(num, den, digits) ==
    LET d == den * Step(digits)
        q == num \div d
        r == num % d
    IN IF 2 * r < d THEN {q * Step(digits)}
       ELSE IF 2 * r > d THEN {(q + 1) * Step(digits)}
       ELSE {q * Step(digits), (q + 1) * Step(digits)}

\* parseFloat((((avg * n) + value) / (n + 1)).toFixed(digits)): NaN stays
\* NaN and a null avg counts as 0
CumulativeMean(avg, n, value, digits) ==
    IF avg.k = "nan" \/ value.k = "nan" THEN {NotANumber}
    ELSE {Num(v) : v \in ToFixed((IF avg.k = "null" THEN 0 ELSE avg.v) * n + value.v,
                                 n + 1, digits)}

\* metrics.avgFlightTime > 0 ? the cumulative mean : current.avgFlightTime,
\* then toFixed(2)
NewFlight(avg, n, value) ==
    IF value.k = "num" /\ value.v > 0 THEN CumulativeMean(avg, n, value, 2)
    ELSE {Num(v) : v \in ToFixed(avg.v, 1, 2)}

\* a default profile that already counts one session
DefaultProfileOneSession ==
    [avgWpm |-> Num(0), avgFlightTime |-> Num(0), avgAccuracy |-> Num(Dec(100, 0)),
     avgMouseVelocity |-> Num(0), totalSessions |-> 1]

\* { avgWpm: 0, avgFlightTime: 0, avgAccuracy: 100, avgMouseVelocity: 0,
\*   totalSessions: 0, lastSeen: Date.now() }; lastSeen is left out
DefaultProfile ==
    [avgWpm |-> Num(0), avgFlightTime |-> Num(0), avgAccuracy |-> Num(Dec(100, 0)),
     avgMouseVelocity |-> Num(0), totalSessions |-> 0]

\* Persistence.getProfile() || the default
GetProfile(data) == IF data = <<>> THEN DefaultProfile ELSE data[1]

\* JSON.stringify of a profile, as JSON.parse reads it back
JsonProfile(p) ==
    [avgWpm |-> Json(p.avgWpm), avgFlightTime |-> Json(p.avgFlightTime),
     avgAccuracy |-> Json(p.avgAccuracy),
     avgMouseVelocity |-> Json(p.avgMouseVelocity),
     totalSessions |-> p.totalSessions]

\* Persistence.updateProfile(metrics): the pairs of what it returns and what it
\* leaves in localStorage
UpdateProfile(data, m) ==
    LET current == GetProfile(data)
        n == current.totalSessions
    IN { [updated |-> u, storage |-> <<JsonProfile(u)>>] :
           u \in { [avgWpm |-> w, avgFlightTime |-> f, avgAccuracy |-> a,
                    avgMouseVelocity |-> v, totalSessions |-> n + 1] :
                     w \in CumulativeMean(current.avgWpm, n, m.wpm, 2),
                     f \in NewFlight(current.avgFlightTime, n, m.avgFlightTime),
                     a \in CumulativeMean(current.avgAccuracy, n, m.accuracy, 2),
                     v \in CumulativeMean(current.avgMouseVelocity, n,
                                          m.avgVelocity, 4) } }

(* ------------------- the event capture and the bot -------------------- *)

\* generateBotKeystrokes: baseDelay, the dwell time and the size of a burst
BaseDelay == 100
BotDwell == 50
BurstSize == 5

\* App.tsx: the period of the bot interval
BotInterval == 2000

\* characters of the sentence the bot types from
BotChars == {"T", " "}

\* generateBotKeystrokes(currentTimestamp): chars[i] is the character that
\* Math.random picks in round i - 1 of the loop. isSynthetic is FALSE for the
\* events of the capture callback, which leaves it undefined.
BotKey(char, t, type) ==
    [key |-> char, code |-> "Key" \o char, timestamp |-> t, type |-> type,
     isSynthetic |-> TRUE]

RECURSIVE GenerateBotKeystrokes(_, _, _)
GenerateBotKeystrokes(currentTimestamp, chars, i) ==
    IF i >= BurstSize THEN <<>>
    ELSE LET t == currentTimestamp + i * BaseDelay
         IN <<BotKey(chars[i + 1], t, "down"),
              BotKey(chars[i + 1], t + BotDwell, "up")>>
              \o GenerateBotKeystrokes(currentTimestamp, chars, i + 1)

\* new KeyboardCapture(onEvent) in an effect run whose closure holds the given
\* isMonitoring: not active, nothing pressed, no listener registered.
\* listeners is the set of the (target, capture flag) pairs under which its
\* two handlers are registered.
NewKeyboardCapture(monitoring) ==
    [active |-> FALSE, pressed |-> {}, listeners |-> {}, monitoring |-> monitoring]

\* the targets start() and stop() name, in the order in which a key event on
\* its way down reaches them
CaptureTargets == <<"window", "document">>

\* KeyboardCapture.start(): addEventListener with { capture: true }
Start(k) ==
    IF k.active THEN k
    ELSE [k EXCEPT !.active = TRUE,
                   !.listeners = @ \cup {<<CaptureTargets[i], TRUE>> : i \in {1, 2}}]

\* KeyboardCapture.stop(): removeEventListener without options names the
\* listener registered with capture false
Stop(k) ==
    IF ~k.active THEN k
    ELSE [k EXCEPT !.active = FALSE,
                   !.listeners = @ \ {<<CaptureTargets[i], FALSE>> : i \in {1, 2}},
                   !.pressed = {}]

\* the callback App hands to KeyboardCapture: appends one KeyEvent
OnEvent(s, msg) ==
    IF ~s.kb.monitoring THEN s
    ELSE [s EXCEPT !.captured = Append(@, [key |-> msg.key, code |-> msg.code,
                                            timestamp |-> msg.timestamp,
                                            type |-> msg.type,
                                            isSynthetic |-> FALSE])]

\* downHandler and upHandler: one call of the handler for a key event
Handler(s, type, code, now) ==
    IF ~s.kb.active THEN s
    ELSE OnEvent([s EXCEPT !.kb.pressed = IF type = "down" THEN @ \cup {code}
                                          ELSE @ \ {code}],
                 [key |-> code, code |-> code, timestamp |-> now, type |-> type])

\* the browser dispatches one key event: in the capture phase it calls the
\* listeners of window, then those of document
RECURSIVE Dispatch(_, _, _, _, _)
Dispatch(s, type, code, now, i) ==
    IF i > Len(CaptureTargets) THEN s
    ELSE Dispatch(IF <<CaptureTargets[i], TRUE>> \in s.kb.listeners
                  THEN Handler(s, type, code, now) ELSE s,
                  type, code, now, i + 1)

(* ------------------------- the state machine -------------------------- *)

Idle == [op |-> "new", notes |-> <<>>, handled |-> FALSE, raised |-> FALSE,
         armed |-> 0, delay |-> 0, flushed |-> 0, msg |-> "-", connects |-> 0]

\* App.tsx: useState<KeyEvent[]>([]) and useState(calculateMetrics([], [], false))
MetricsStart == keyEvents = <<>> /\ metrics = CalculateMetrics(<<>>)

\* no code has been hashed: the empty string and its identifier
HashStart == codeStr = <<>> /\ keyId = HashString(<<>>)

\* what the last Persistence call did, before any call:
\*   op, mode : the call and its encryptionEnabled argument
\*   raised   : the call ended with an exception
\*   result   : the value getLogs returned
\*   entry    : the entry (logToSave) of the last saveLog call that returned
LogIdle == [op |-> "none", mode |-> FALSE, raised |-> FALSE,
            result |-> List(<<>>), entry |-> <<>>]

\* a browser profile in which nothing was stored under 'kbl_logs'
LogStart == storage = Absent /\ saveCount = 0 /\ logLast = LogIdle

\* a browser profile in which nothing was stored under 'kbl_profile'
ProfileStart == profile = <<>> /\ sessions = <<>> /\ lastProfile = DefaultProfile

\* App.tsx: useState<MouseEventData[]>([])
MouseStart ==
    mouseEvents = <<>> /\ mouseMetrics = CalculateMouseMetrics(<<>>)

\* App.tsx after the first render: not monitoring, no bot, a KeyboardCapture
\* that was not started
CaptureStart ==
    /\ clock = 0
    /\ isMonitoring = FALSE
    /\ botMode = FALSE
    /\ botTimer = 0
    /\ kb = NewKeyboardCapture(FALSE)
    /\ stopped = 0
    /\ captured = <<>>
    /\ strokes = 0

\* a client that was constructed and is never used
ClientStart ==
    /\ urlValid = TRUE
    /\ ws = "null"
    /\ orphans = EmptyBag
    /\ reconnectAttempts = 0
    /\ shouldReconnect = TRUE
    /\ sendQueue = <<>>
    /\ timers = 0
    /\ sent = <<>>
    /\ sendCount = 0
    /\ status = "idle"
    /\ dispatching = FALSE
    /\ last = Idle

\* the state after new WSClient(url, onMessage, onStatus)
Init ==
    /\ urlValid \in BOOLEAN
    /\ ws = "null"
    /\ orphans = EmptyBag
    /\ reconnectAttempts = 0
    /\ shouldReconnect = TRUE
    /\ sendQueue = <<>>
    /\ timers = 0
    /\ sent = <<>>
    /\ sendCount = 0
    /\ status = "idle"
    /\ dispatching = FALSE
    /\ last = Idle
    /\ MetricsStart
    /\ HashStart
    /\ LogStart
    /\ ProfileStart
    /\ MouseStart
    /\ CaptureStart

\* the bounds of the model: counter, pending timers, live sockets
WithinBounds(s) ==
    /\ s.att <= MaxAttempts
    /\ s.timers <= MaxTimers
    /\ LiveCount(s) <= MaxChan

\* the handler's result becomes the next state
Commit(s) ==
    /\ WithinBounds(s)
    /\ ws' = s.ws
    /\ orphans' = s.orphans
    /\ reconnectAttempts' = s.att
    /\ shouldReconnect' = s.should
    /\ sendQueue' = s.q
    /\ timers' = s.timers
    /\ sent' = s.sent
    /\ status' = s.status
    /\ last' = [op |-> s.op, notes |-> s.notes, handled |-> s.handled,
                raised |-> s.raised, armed |-> s.armed, delay |-> s.delay,
                flushed |-> s.flushed, connects |-> s.connects,
                msg |-> s.msg]
    /\ UNCHANGED <<metricsVars, hashVars, logVars, profileVars, mouseVars, captureVars>>

\* The sockets an event can be fired on: the one this.ws refers to (cur) or a
\* dropped one, each in readyState st.
Targets(states) ==
    {[cur |-> TRUE, st |-> ws] : x \in {ws} \cap states}
      \cup {[cur |-> FALSE, st |-> st] : st \in BagToSet(orphans) \cap states}

\* socket t moves to readyState st (a dropped socket that is CLOSED is gone)
Moved(s, t, st) ==
    IF t.cur THEN [s EXCEPT !.ws = st]
    ELSE [s EXCEPT !.orphans = IF st \in Live
                               THEN (@ (-) SetToBag({t.st})) (+) SetToBag({st})
                               ELSE @ (-) SetToBag({t.st})]

\* the owner calls connect()
DoConnect ==
    /\ ~dispatching
    /\ \E j \in Jitters : Commit(Connect(Here("connect"), j))
    /\ UNCHANGED <<urlValid, sendCount, dispatching>>

\* the owner calls disconnect()
DoDisconnect ==
    /\ ~dispatching
    /\ Commit(Disconnect(Here("disconnect")))
    /\ UNCHANGED <<urlValid, sendCount, dispatching>>

\* the owner calls send(payload); bad: the payload cannot be serialised
DoSend ==
    /\ ~dispatching
    /\ sendCount < MaxSends
    /\ \E bad \in BOOLEAN :
          Commit(Send(Here("send"), [id |-> sendCount + 1, bad |-> bad]))
    /\ sendCount' = sendCount + 1
    /\ UNCHANGED <<urlValid, dispatching>>

\* the open event of a socket
ChanOpen ==
    /\ ~dispatching
    /\ \E t \in Targets({"CONNECTING"}) :
          Commit(OnOpen(Moved(Here("onopen"), t, "OPEN")))
    /\ UNCHANGED <<urlValid, sendCount, dispatching>>

\* a message event of a socket (frames still arrive while it is CLOSING)
ChanMessage ==
    /\ ~dispatching
    /\ Targets({"OPEN", "CLOSING"}) # {}
    /\ \E kind \in MsgKinds, throws \in BOOLEAN :
          Commit(OnMessage(Here("onmessage"), kind, throws))
    /\ UNCHANGED <<urlValid, sendCount, dispatching>>

\* the far end starts the closing handshake of a socket: no event is fired yet.
\* (Room is kept for the socket a later connect() creates beside this one.)
ChanClosing ==
    /\ ~dispatching
    /\ LiveCount(Here("closing")) < MaxChan
    /\ \E t \in Targets({"OPEN"}) :
          LET s == Moved(Here("closing"), t, "CLOSING")
          IN ws' = s.ws /\ orphans' = s.orphans
    /\ last' = [Idle EXCEPT !.op = "closing"]
    /\ UNCHANGED <<urlValid, reconnectAttempts, shouldReconnect, sendQueue,
                   timers, sent, sendCount, status, dispatching>>
    /\ UNCHANGED <<metricsVars, hashVars, logVars, profileVars, mouseVars, captureVars>>

\* a socket is closed cleanly: its close event
ChanClose ==
    /\ ~dispatching
    /\ \E t \in Targets({"OPEN", "CLOSING"}), j \in Jitters :
          Commit(OnClose(Moved(Here("onclose"), t, "CLOSED"), j))
    /\ UNCHANGED <<urlValid, sendCount, dispatching>>

\* the connection of a socket fails: its error event; the close event follows
\* in the same task (so the bounds must leave room for what onclose arms)
ChanError ==
    /\ ~dispatching
    /\ \A j \in Jitters : WithinBounds(OnClose(Here("onclose"), j))
    /\ \E t \in Targets(Live) :
          Commit(OnError(Moved(Here("onerror"), t, "CLOSED")))
    /\ dispatching' = TRUE
    /\ UNCHANGED <<urlValid, sendCount>>

\* the close event that follows the error event
ChanCloseAfterError ==
    /\ dispatching
    /\ \E j \in Jitters : Commit(OnClose(Here("onclose"), j))
    /\ dispatching' = FALSE
    /\ UNCHANGED <<urlValid, sendCount>>

\* a pending reconnect timer fires
TimerFire ==
    /\ ~dispatching
    /\ timers > 0
    /\ \E j \in Jitters :
          Commit(TimerCallback([Here("timer") EXCEPT !.timers = @ - 1], j))
    /\ UNCHANGED <<urlValid, sendCount, dispatching>>

Next ==
    \/ DoConnect
    \/ DoDisconnect
    \/ DoSend
    \/ ChanOpen
    \/ ChanMessage
    \/ ChanClosing
    \/ ChanClose
    \/ ChanError
    \/ ChanCloseAfterError
    \/ TimerFire

Spec == Init /\ [][Next]_vars

\* Timers that were armed fire, and the close event follows the error event.
FairSpec == Spec /\ WF_vars(TimerFire) /\ WF_vars(ChanCloseAfterError)

(* ------------------- the feature extractor at work -------------------- *)

\* the time of the newest event in the buffer (0 for an empty buffer)
Now == IF keyEvents = <<>> THEN 0 ELSE keyEvents[Len(keyEvents)].timestamp

\* App.tsx: the capture callback appends one event to the buffer
\* (setEvents(prev => [...prev, event])) and the effect on [events] recomputes
\* the metrics from the whole buffer.
KeyCaptured ==
    /\ Len(keyEvents) < MaxKeyEvents
    /\ \E code \in KeyCodes, type \in EventTypes, gap \in Gaps :
          LET event == [key |-> KeyOf(code), code |-> code,
                        timestamp |-> Now + gap, type |-> type]
          IN /\ keyEvents' = Append(keyEvents, event)
             /\ metrics' = CalculateMetrics(keyEvents')
    /\ UNCHANGED <<clientVars, hashVars, logVars, profileVars, mouseVars, captureVars>>

\* the key sequence [down A @0, up A @80, down B @150, up B @210]
Scenario ==
    <<[key |-> "a", code |-> "KeyA", timestamp |-> 0, type |-> "down"],
      [key |-> "a", code |-> "KeyA", timestamp |-> 80, type |-> "up"],
      [key |-> "b", code |-> "KeyB", timestamp |-> 150, type |-> "down"],
      [key |-> "b", code |-> "KeyB", timestamp |-> 210, type |-> "up"]>>

\* App.tsx: several events are appended to an empty buffer at once
\* (setEvents(prev => [...prev, ...botKeys])), here those of Scenario, and
\* the effect on [events] recomputes the metrics.
ScenarioCaptured ==
    /\ keyEvents = <<>>
    /\ keyEvents' = Scenario
    /\ metrics' = CalculateMetrics(keyEvents')
    /\ UNCHANGED <<clientVars, hashVars, logVars, profileVars, mouseVars, captureVars>>

MetricsInit ==
    /\ ClientStart /\ MetricsStart /\ HashStart /\ LogStart
    /\ ProfileStart /\ MouseStart /\ CaptureStart

MetricsNext == KeyCaptured \/ ScenarioCaptured

MetricsSpec == MetricsInit /\ [][MetricsNext]_vars

\* calculateMetrics in privacy mode names a key by hashString(code): one more
\* code unit is added to the code string and the string is hashed.
CodeHashed ==
    /\ Len(codeStr) < MaxCodeLen
    /\ \E c \in CodeUnits :
          /\ codeStr' = Append(codeStr, c)
          /\ keyId' = HashString(codeStr')
    /\ UNCHANGED <<clientVars, metricsVars, logVars, profileVars, mouseVars, captureVars>>

HashInit ==
    /\ ClientStart /\ MetricsStart /\ HashStart /\ LogStart
    /\ ProfileStart /\ MouseStart /\ CaptureStart

HashNext == CodeHashed

HashSpec == HashInit /\ [][HashNext]_vars

(* ------------------------ the log store at work ----------------------- *)

\* App.tsx onMessage: Persistence.saveLog(newLog, encryptionEnabled). The entry
\* is told apart by id (its timestamp, Date.now() at the call).
DoSaveLog ==
    /\ saveCount < MaxSaves
    /\ \E enabled \in BOOLEAN, rejected \in BOOLEAN,
          wide \in (IF saveCount < MaxWideSaves THEN BOOLEAN ELSE {FALSE}) :
          LET log == [id |-> saveCount + 1, wide |-> wide]
              r == SaveLog(storage, log, enabled, rejected)
          IN /\ storage' = r.storage
             /\ saveCount' = IF r.raised THEN saveCount ELSE saveCount + 1
             /\ logLast' = [op |-> "saveLog", mode |-> enabled,
                            raised |-> r.raised, result |-> List(<<>>),
                            entry |-> IF r.raised THEN logLast.entry
                                      ELSE <<[id |-> log.id, wide |-> wide,
                                              isEncrypted |-> enabled]>>]
    /\ UNCHANGED <<clientVars, metricsVars, hashVars, profileVars, mouseVars, captureVars>>

\* App.tsx: Persistence.getLogs(encryptionEnabled) when the encryption setting
\* is set or changed
DoGetLogs ==
    /\ \E enabled \in BOOLEAN :
          logLast' = [logLast EXCEPT !.op = "getLogs", !.mode = enabled,
                                     !.raised = FALSE,
                                     !.result = GetLogs(storage, enabled)]
    /\ UNCHANGED <<storage, saveCount>>
    /\ UNCHANGED <<clientVars, metricsVars, hashVars, profileVars, mouseVars, captureVars>>

LogInit ==
    /\ ClientStart /\ MetricsStart /\ HashStart /\ LogStart
    /\ ProfileStart /\ MouseStart /\ CaptureStart

LogNext == DoSaveLog \/ DoGetLogs

LogSpec == LogInit /\ [][LogNext]_vars

\* the entries a store written by something else may hold
StoredEntries ==
    [id : 1..MaxStored, wide : {FALSE}, isEncrypted : BOOLEAN]

RECURSIVE SeqsUpTo(_, _)
SeqsUpTo(S, n) ==
    IF n = 0 THEN {<<>>}
    ELSE LET shorter == SeqsUpTo(S, n - 1)
         IN shorter \cup {Append(s, x) : s \in shorter, x \in S}

\* the JSON values such a store may hold
StoredValues ==
    {List(items) : items \in SeqsUpTo(StoredEntries, MaxStored)}
      \cup {NonList(k) : k \in NonListKinds}

\* every value localStorage may hold under 'kbl_logs'
StoredTexts ==
    {Absent, Other} \cup {Plain(v) : v \in StoredValues}
                   \cup {Base64(v) : v \in StoredValues}

ReadInit ==
    /\ ClientStart /\ MetricsStart /\ HashStart /\ ProfileStart /\ MouseStart /\ CaptureStart
    /\ storage \in StoredTexts
    /\ saveCount = 0
    /\ logLast = LogIdle

ReadNext == DoGetLogs

ReadSpec == ReadInit /\ [][ReadNext]_vars

(* ----------------------- the user profile at work --------------------- *)

\* The metrics of a session, as far as updateProfile reads them: wpm,
\* avgFlightTime (0 when the session has no flight sample), accuracy (NaN for
\* a buffer without a key-down) and mouseMetrics.avgVelocity.
Session(w, f, a, v) ==
    [wpm |-> Num(w), avgFlightTime |-> Num(f), accuracy |-> a, avgVelocity |-> Num(v)]

SessionValues ==
    { Session(Dec(40, 0), Dec(120, 0), Num(Dec(100, 0)), Dec(0, 50000)),
      Session(Dec(48, 33333), 0, Num(Dec(87, 50000)), Dec(0, 12346)),
      Session(0, Dec(80, 12500), NotANumber, 0),
      Session(Dec(62, 50000), Dec(200, 0), Num(Dec(95, 23810)), Dec(1, 25000)),
      Session(Dec(55, 0), Dec(80, 0), Num(Dec(100, 0)), Dec(0, 30000)) }

\* Persistence.updateProfile(metrics) at the end of a session
DoUpdateProfile ==
    /\ Len(sessions) < MaxSessions
    /\ \E m \in SessionValues :
          \E r \in UpdateProfile(profile, m) :
             /\ profile' = r.storage
             /\ lastProfile' = r.updated
             /\ sessions' = Append(sessions, m)
    /\ UNCHANGED <<clientVars, metricsVars, hashVars, logVars, mouseVars,
                 captureVars>>

ProfileInit ==
    /\ ClientStart /\ MetricsStart /\ HashStart /\ LogStart
    /\ ProfileStart /\ MouseStart /\ CaptureStart

ProfileNext == DoUpdateProfile

ProfileSpec == ProfileInit /\ [][ProfileNext]_vars

(* ----------------------- the mouse analysis at work ------------------- *)

\* the moves of the pointer between two samples: along an axis or a diagonal,
\* shorter than 5 pixels or not
Moves == {<<1, 0>>, <<0, 1>>, <<-1, -1>>, <<6, 0>>}

\* the time between two samples: none, or more than the 50 ms of the
\* mousemove throttle
MouseGaps == {0, 60}

\* App.tsx: a sample is appended to the buffer (setMouseEvents) and the effect
\* on [mouseEvents] recomputes the metrics. The buffer stays far below the 100
\* samples that slice(-100) keeps.
MouseMoved ==
    /\ Len(mouseEvents) < MaxMouse
    /\ \E move \in Moves, gap \in MouseGaps :
          LET sample == IF mouseEvents = <<>>
                        THEN [x |-> 0, y |-> 0, timestamp |-> 0]
                        ELSE [x |-> mouseEvents[Len(mouseEvents)].x + move[1],
                              y |-> mouseEvents[Len(mouseEvents)].y + move[2],
                              timestamp |->
                                  mouseEvents[Len(mouseEvents)].timestamp + gap]
          IN /\ mouseEvents' = Append(mouseEvents, sample)
             /\ mouseMetrics' = CalculateMouseMetrics(mouseEvents')
    /\ UNCHANGED <<clientVars, metricsVars, hashVars, logVars, profileVars,
                 captureVars>>

MouseInit ==
    /\ ClientStart /\ MetricsStart /\ HashStart /\ LogStart
    /\ ProfileStart /\ MouseStart /\ CaptureStart

MouseNext == MouseMoved

MouseSpec == MouseInit /\ [][MouseNext]_vars

(* ----------------------- the event capture at work -------------------- *)

\* the keys of the keyboard
PhysicalKeys == {"KeyA"}

\* the time between two key transitions
KeyGap == 10

\* how often the clock has advanced
Ticks == clock \div BotInterval + (clock % BotInterval) \div KeyGap

\* time passes
Tick ==
    /\ Ticks < MaxTicks
    /\ \E d \in {KeyGap, BotInterval} : clock' = clock + d
    /\ UNCHANGED <<isMonitoring, botMode, botTimer, kb, stopped, captured, strokes>>
    /\ UNCHANGED <<clientVars, metricsVars, hashVars, logVars, profileVars, mouseVars>>

\* a key goes down or up and the browser dispatches the event
KeyTransition ==
    /\ Len(captured) + Len(CaptureTargets) <= MaxCaptured
    /\ \E code \in PhysicalKeys, type \in EventTypes :
          LET s == Dispatch([kb |-> kb, captured |-> captured], type, code, clock, 1)
          IN /\ kb' = s.kb
             /\ captured' = s.captured
    /\ strokes' = IF kb.active THEN strokes + 1 ELSE strokes
    /\ UNCHANGED <<clock, isMonitoring, botMode, botTimer, stopped>>
    /\ UNCHANGED <<clientVars, metricsVars, hashVars, logVars, profileVars, mouseVars>>

\* the interval callback of the bot effect: a burst is appended
BotBurst ==
    /\ botTimer # 0 /\ clock >= botTimer
    /\ Len(captured) + 2 * BurstSize <= MaxCaptured
    /\ \E chars \in [1..BurstSize -> BotChars] :
          captured' = captured \o GenerateBotKeystrokes(clock, chars, 0)
    /\ botTimer' = botTimer + BotInterval
    /\ UNCHANGED <<clock, isMonitoring, botMode, kb, stopped, strokes>>
    /\ UNCHANGED <<clientVars, metricsVars, hashVars, logVars, profileVars, mouseVars>>

\* the bot effect on [botMode, isMonitoring]: the interval is cleared and, when
\* both hold, set again
BotEffect(bot, monitoring) == IF bot /\ monitoring THEN clock + BotInterval ELSE 0

\* setIsMonitoring(v) and the effects on [isMonitoring]: the cleanup stops the
\* KeyboardCapture of the last run, a new one is made and, when monitoring,
\* started
SetIsMonitoring ==
    /\ stopped < MaxInstances
    /\ isMonitoring' = ~isMonitoring
    /\ kb' = IF isMonitoring' THEN Start(NewKeyboardCapture(TRUE))
             ELSE NewKeyboardCapture(FALSE)
    /\ stopped' = stopped + 1
    /\ botTimer' = BotEffect(botMode, isMonitoring')
    /\ UNCHANGED <<clock, botMode, captured, strokes>>
    /\ UNCHANGED <<clientVars, metricsVars, hashVars, logVars, profileVars, mouseVars>>

\* setBotMode(!botMode) and the bot effect
SetBotMode ==
    /\ botMode' = ~botMode
    /\ botTimer' = BotEffect(botMode', isMonitoring)
    /\ UNCHANGED <<clock, isMonitoring, kb, stopped, captured, strokes>>
    /\ UNCHANGED <<clientVars, metricsVars, hashVars, logVars, profileVars, mouseVars>>

CaptureInit ==
    /\ ClientStart /\ MetricsStart /\ HashStart /\ LogStart
    /\ ProfileStart /\ MouseStart /\ CaptureStart

CaptureNext == Tick \/ KeyTransition \/ BotBurst \/ SetIsMonitoring \/ SetBotMode

CaptureSpec == CaptureInit /\ [][CaptureNext]_vars

(* ------------------------------ claims -------------------------------- *)

\* the client's current socket is OPEN
ChannelOpen == ws = "OPEN"

\* C1: when the channel opens and the queue is flushed no queued message is
\* dropped: some prefix of the queue is transmitted, in order, and everything
\* from the first failed message on is still queued in its original order.
C1_FlushDropsNothing ==
    [][ last'.op = "onopen" =>
          \E n \in 0..Len(sendQueue) :
             /\ sent' = sent \o Ids(SubSeq(sendQueue, 1, n))
             /\ sendQueue' = SubSeq(sendQueue, n + 1, Len(sendQueue)) ]_vars

\* C2: once disconnect() has been called (the do-not-reconnect flag is set)
\* no handler arms a reconnect timer, and no handler other than the owner's
\* own connect() call invokes connect().
C2_NoReconnectAfterDisconnect ==
    [][ ~shouldReconnect =>
          /\ last'.armed = 0
          /\ (last'.op # "connect" => last'.connects = 0) ]_vars

\* C3: the observer is notified exactly once per state transition: every
\* notification reports a status that differs from the one reported before
\* it (the observer starts in "idle"), so no closure is reported twice.
C3_OneNotificationPerTransition ==
    [][ LET chain == <<status>> \o last'.notes
        IN \A i \in 1..(Len(chain) - 1) : chain[i] # chain[i + 1] ]_vars

\* C4: an inbound message that is not well-formed, or is well-formed but has
\* no success marker, yields an "error" notification, is not passed to the
\* message handler, and leaves the channel and the reconnection state alone.
C4_BadMessageIsReportedAsError ==
    [][ (last'.op = "onmessage" /\ last'.msg \in {"malformed", "noOk"}) =>
          /\ "error" \in Range(last'.notes)
          /\ ~last'.handled
          /\ UNCHANGED <<ws, orphans, reconnectAttempts, shouldReconnect,
                         timers, sendQueue>> ]_vars

\* C5: a send() made while the channel is not open is queued at the tail, and
\* when the channel opens with a queue whose every transmission succeeds the
\* whole queue is transmitted in send order and the queue is left empty.
C5_QueuedSendsFlushInOrder ==
    [][ /\ (last'.op = "send" /\ ~ChannelOpen) =>
              /\ Len(sendQueue') = Len(sendQueue) + 1
              /\ SubSeq(sendQueue', 1, Len(sendQueue)) = sendQueue
              /\ sendQueue'[Len(sendQueue')].id = sendCount'
              /\ sent' = sent
        /\ (last'.op = "onopen" /\ \A i \in 1..Len(sendQueue) : ~sendQueue[i].bad) =>
              /\ sent' = sent \o Ids(sendQueue)
              /\ sendQueue' = <<>> ]_vars

\* every send was queued while connecting and the open event flushed them all,
\* in send order
C5_Witness ==
    /\ last.op = "onopen"
    /\ last.flushed = MaxSends
    /\ sent = [i \in 1..MaxSends |-> i]
    /\ sendQueue = <<>>

\* C6: send(p) on an open channel whose transmission succeeds transmits p once
\* and leaves the queue alone; in every other case p is appended at the tail
\* of the queue and nothing is transmitted; send() never raises.
C6_SendTransmitsOrQueues ==
    [][ last'.op = "send" =>
          \E bad \in BOOLEAN :
             LET p == [id |-> sendCount + 1, bad |-> bad]
             IN /\ ~last'.raised
                /\ IF ChannelOpen /\ ~bad
                   THEN sent' = Append(sent, p.id) /\ sendQueue' = sendQueue
                   ELSE sendQueue' = Append(sendQueue, p) /\ sent' = sent ]_vars

\* a transmission failed on an open channel and the payload was queued
C6_Witness ==
    /\ last.op = "send"
    /\ ChannelOpen
    /\ sendQueue # <<>>
    /\ sendQueue[Len(sendQueue)] = [id |-> sendCount, bad |-> TRUE]
    /\ sent # <<>>

\* the client's channel has closed, or its construction has failed
NeedsRecovery ==
    \/ ws = "CLOSED"
    \/ ~urlValid /\ reconnectAttempts >= 1

\* a new attempt is under way; for a channel that cannot be constructed the
\* attempts (one per increment of the counter) go on up to the model's cap
Reattempted ==
    \/ ws = "CONNECTING" /\ status = "connecting"
    \/ ~urlValid /\ reconnectAttempts = MaxAttempts

\* C7: when the client's channel has closed, or a connection attempt has
\* failed, and reconnection is still wanted, a new connection attempt is
\* started eventually (or disconnect() is called first).
C7_ClosureLeadsToReconnect ==
    (shouldReconnect /\ NeedsRecovery) ~> (Reattempted \/ ~shouldReconnect)

\* the channel was open, has closed, and a reconnect timer is pending
C7_Witness ==
    /\ last.op = "onclose"
    /\ ws = "CLOSED"
    /\ shouldReconnect
    /\ timers > 0
    /\ sent # <<>>

\* C8: the delay armed for attempt k lies in
\* [min(8000, 500 * 2^k), min(8000, 500 * 2^k) + 250], with k >= 1.
C8_BackoffDelayInRange ==
    last.armed > 0 =>
        LET k  == reconnectAttempts
            lo == IF 500 * Pow2(k) < 8000 THEN 500 * Pow2(k) ELSE 8000
        IN k >= 1 /\ lo <= last.delay /\ last.delay <= lo + 250

\* a timer was armed for the fifth attempt, where the cap is active
C8_Witness ==
    /\ last.armed = 1
    /\ reconnectAttempts = 5
    /\ last.delay = 8249

\* C9 as stated: the counter grows by one on every channel closure, returns
\* to zero only on an open event, and send, disconnect, inbound messages and
\* error events leave it alone.
C9_CounterIncrementsOnEveryClosure ==
    [][ /\ last'.op = "onclose" => reconnectAttempts' = reconnectAttempts + 1
        /\ reconnectAttempts' < reconnectAttempts =>
              (last'.op = "onopen" /\ reconnectAttempts' = 0)
        /\ last'.op \in {"send", "disconnect", "onmessage", "onerror"} =>
              reconnectAttempts' = reconnectAttempts ]_vars

\* C9 amended: the counter grows by one on a channel closure only while
\* reconnection has not been suppressed by disconnect(), and on a connect()
\* whose channel cannot be constructed; an open event sets it to zero; nothing
\* else changes it.
C9_CounterChanges ==
    [][ reconnectAttempts' =
          IF last'.op = "onopen" THEN 0
          ELSE IF last'.op = "onclose" /\ shouldReconnect THEN reconnectAttempts + 1
          ELSE IF last'.connects > 0 /\ ~urlValid THEN reconnectAttempts + 1
          ELSE reconnectAttempts ]_vars

\* a channel closed after disconnect() and the counter kept its non-zero value
C9_Witness ==
    /\ last.op = "onclose"
    /\ ~shouldReconnect
    /\ last.armed = 0
    /\ reconnectAttempts > 0

\* C10: connect() called while the client's channel is connecting or open
\* notifies nobody, creates no channel and leaves the counter, the flag and
\* the queue alone (called from a timer, it only consumes that timer).
C10_ConnectWhileLiveIsNoop ==
    [][ (last'.connects > 0 /\ ws \in {"CONNECTING", "OPEN"}) =>
          /\ last'.notes = <<>>
          /\ UNCHANGED <<ws, orphans, reconnectAttempts, shouldReconnect,
                         sendQueue, sent, status>>
          /\ timers' = IF last'.op = "timer" THEN timers - 1 ELSE timers ]_vars

\* connect() was called while the channel was connecting and did nothing
C10_Witness ==
    /\ last.op = "connect"
    /\ last.notes = <<>>
    /\ ws = "CONNECTING"
    /\ status = "connecting"

(* ------------------- further claims on the WSClient ------------------- *)

\* C26: payloads reach the channel in the order of their send() calls: the
\* transmitted ids increase, and a payload is never transmitted while a
\* payload of an earlier send() is left waiting in the queue.
C26_TransmittedInSendOrder ==
    [][ /\ \A i \in 1..(Len(sent') - 1) : sent'[i] < sent'[i + 1]
        /\ \A i \in (Len(sent) + 1)..Len(sent') :
              \A k \in 1..Len(sendQueue') : sendQueue'[k].id > sent'[i] ]_vars

\* C27: the last status delivered to the observer is 'open' exactly when the
\* channel the client refers to is open.
C27_StatusAgreesWithChannel == (status = "open") <=> (ws = "OPEN")

\* the number of channels of the client that are connecting or open
Usable ==
    CopiesIn("CONNECTING", orphans) + CopiesIn("OPEN", orphans)
      + (IF ws \in {"CONNECTING", "OPEN"} THEN 1 ELSE 0)

\* C28: at most one channel of the client is connecting or open at any time.
C28_OneUsableChannel == Usable <= 1

\* a new channel is connecting while an earlier one has not finished closing
C28_Witness ==
    /\ ws = "CONNECTING"
    /\ BagCardinality(orphans) >= 1
    /\ last.op \in {"connect", "timer"}

\* C29: once disconnect() has been called the do-not-reconnect flag stays set
\* for good; an explicit connect() still opens a new channel (when one can be
\* constructed), and no close, error, open or message event and no timer
\* callback invokes connect(), nor does a close or error event of a channel
\* arm a reconnect timer.
C29_SuppressionIsPermanent ==
    [][ ~shouldReconnect =>
          /\ ~shouldReconnect'
          /\ last'.op # "connect" => last'.connects = 0
          /\ last'.op \in {"onclose", "onerror"} =>
                last'.armed = 0 /\ timers' = timers
          /\ (last'.op = "connect" /\ urlValid /\ ws \notin {"OPEN", "CONNECTING"}) =>
                ws' = "CONNECTING" ]_vars

\* a channel opened by connect() after disconnect() has closed, and no timer
\* is pending
C29_Witness ==
    /\ ~shouldReconnect
    /\ last.op = "onclose"
    /\ ws = "CLOSED"
    /\ timers = 0

(* ---------------------- claims on calculateMetrics -------------------- *)

\* the indices of the 'down' events of the buffer
Downs == {i \in 1..Len(keyEvents) : keyEvents[i].type = "down"}

\* the indices of the Backspace 'down' events of the buffer
BackspaceDowns == {i \in Downs : keyEvents[i].key = "Backspace"}

\* The dwell samples the pairing rule assigns to code in events[i..]: a 'down'
\* of the code becomes the pending one, an 'up' of the code with a pending
\* 'down' at t0 gives the sample up.timestamp - t0 and clears it.
RECURSIVE DwellSamples(_, _, _, _)
DwellSamples(events, code, i, pending) ==
    IF i > Len(events) THEN <<>>
    ELSE IF events[i].code # code THEN DwellSamples(events, code, i + 1, pending)
    ELSE IF events[i].type = "down"
         THEN DwellSamples(events, code, i + 1, Number(events[i].timestamp))
    ELSE IF pending.set
         THEN <<events[i].timestamp - pending.at>>
                \o DwellSamples(events, code, i + 1, Undefined)
    ELSE DwellSamples(events, code, i + 1, Undefined)

RECURSIVE Sum(_)
Sum(seq) == IF seq = <<>> THEN 0 ELSE seq[1] + Sum(Tail(seq))

\* the aggregates of a result agree with the pairing rule on events
DwellsAsPaired(events, m) ==
    \A code \in DOMAIN m.allKeys :
        LET samples == DwellSamples(events, code, 1, Undefined)
        IN /\ m.allKeys[code].count = Len(samples)
           /\ m.allKeys[code].totalDwell = Sum(samples)

\* C11: whenever calculateMetrics returns, every per-code aggregate holds
\* exactly the dwell samples of the pairing rule (one sample up.timestamp - t0
\* for each 'up' whose code has a pending 'down' at t0, t0 = 0 included,
\* nothing for an unmatched 'up'), and for the buffer
\* [down A @0, up A @80, down B @150, up B @210] the result has dwell(A) = 80,
\* dwell(B) = 60, the one flight sample 70 and totalKeys = 2.
C11_DwellOfEveryPairedUp ==
    /\ ~metrics.raised => DwellsAsPaired(keyEvents, metrics)
    /\ keyEvents = Scenario =>
          /\ ~metrics.raised
          /\ metrics.allKeys["KeyA"].count = 1
          /\ metrics.allKeys["KeyA"].totalDwell = 80
          /\ metrics.allKeys["KeyB"].count = 1
          /\ metrics.allKeys["KeyB"].totalDwell = 60
          /\ metrics.flightTimes = <<70>>
          /\ metrics.totalKeys = 2

\* is x a defined number between 0 and 100
IsPercentage(x) == ~x.nan /\ x.den > 0 /\ 0 <= x.num /\ x.num <= 100 * x.den

\* C12: whenever calculateMetrics returns, accuracy is a defined number in
\* [0, 100]; and for a buffer without a 'down' event (empty or only 'up'
\* events) totalKeys is 0 and accuracy is 100.
C12_AccuracyIsDefined ==
    ~metrics.raised =>
        /\ IsPercentage(metrics.accuracy)
        /\ Downs = {} => /\ metrics.totalKeys = 0
                         /\ metrics.accuracy.num = 100 * metrics.accuracy.den

\* C13: calculateMetrics never raises, whatever the buffer holds.
C13_NeverRaises == ~metrics.raised

\* C14: whenever calculateMetrics returns, the backspace counter is the number
\* of Backspace 'down' events and the error counter of every code is the
\* number of Backspace 'down' events with that code (no other event changes
\* an error counter).
C14_ErrorsCountedOnOwnCode ==
    ~metrics.raised =>
        /\ metrics.backspaces = Cardinality(BackspaceDowns)
        /\ \A code \in DOMAIN metrics.allKeys :
              metrics.allKeys[code].errors =
                  Cardinality({i \in BackspaceDowns : keyEvents[i].code = code})

\* The flight samples the rule assigns to events[i..]: for a 'down' preceded
\* by an 'up' (lastUp is the timestamp of the most recent one) the gap
\* down.timestamp - lastUp, kept when it is below the limit.
RECURSIVE FlightSamples(_, _, _)
FlightSamples(events, i, lastUp) ==
    IF i > Len(events) THEN <<>>
    ELSE IF events[i].type = "up"
         THEN FlightSamples(events, i + 1, Number(events[i].timestamp))
    ELSE IF lastUp.set /\ events[i].timestamp - lastUp.at < FlightLimit
         THEN <<events[i].timestamp - lastUp.at>>
                \o FlightSamples(events, i + 1, lastUp)
    ELSE FlightSamples(events, i + 1, lastUp)

\* C15: whenever calculateMetrics returns, the flight samples (the only input
\* of avgFlightTime and rhythmVariance) are exactly, in order, the gaps
\* between each 'down' and the most recent 'up' before it, for the 'down'
\* events that have an 'up' before them and a gap below 2000; no sample is
\* 2000 or more.
C15_FlightSamplesBelowLimit ==
    ~metrics.raised =>
        /\ metrics.flightTimes = FlightSamples(keyEvents, 1, Undefined)
        /\ \A i \in 1..Len(metrics.flightTimes) :
              metrics.flightTimes[i] < FlightLimit

(* ------------------------- claims on hashString ----------------------- *)

\* the hash of str in unbounded arithmetic: seed 5381, times 33 plus the code
\* unit, once per code unit (below 2^31 for strings of up to 3 code units)
RECURSIVE Djb2(_, _)
Djb2(str, n) ==
    IF n = 0 THEN HashSeed ELSE 33 * Djb2(str, n - 1) + str[n]

\* C16 (as claimed): the identifier of a code string is the value hashString
\* computes from the string alone (seed 5381, multiplier 33, unsigned 32
\* bits, hexadecimal) and is exactly 6 hexadecimal characters long, for the
\* empty string and one-character strings too.
C16_IdentifierHasSixHexDigits ==
    /\ keyId = HashString(codeStr)
    /\ Len(keyId) = IdLength
    /\ \A i \in 1..Len(keyId) : keyId[i] \in 0..15

\* C16 (amended): the identifier is a function of the code string alone, the
\* first 6 hexadecimal digits of the hash (seed 5381, multiplier 33, unsigned
\* 32 bits) written without leading zeros: it has at least 1 and at most 6
\* hexadecimal characters, 4 for the empty string ("1505"), 5 for a
\* one-character string and 6 for strings of two or three characters.
C16_IdentifierHasAtMostSixHexDigits ==
    /\ keyId = HashString(codeStr)
    /\ 1 <= Len(keyId) /\ Len(keyId) <= IdLength
    /\ \A i \in 1..Len(keyId) : keyId[i] \in 0..15
    /\ Len(codeStr) <= 3 =>
          keyId = Substring(HexDigits(Djb2(codeStr, Len(codeStr))), IdLength)
    /\ codeStr = <<>> => keyId = <<1, 5, 0, 5>>
    /\ Len(codeStr) = 1 => Len(keyId) = 5
    /\ Len(codeStr) \in {2, 3} => Len(keyId) = IdLength

\* a one-character code string was hashed and its identifier is short
C16_Witness == Len(codeStr) = 1 /\ Len(keyId) < IdLength

(* ------------------------ claims on the log store --------------------- *)

\* the log list that is persisted (empty when nothing is stored)
Persisted ==
    IF storage.enc \in {"plain", "base64"} /\ storage.value.t = "list"
    THEN storage.value.items ELSE <<>>

C25_AppendKeepsEarlierEntries ==
    /\ Len(Persisted) = Min(saveCount, LogCap)
    /\ \A i \in 1..Len(Persisted) : Persisted[i].id = saveCount - i + 1

\* C18: getLogs(m2) called after saveLog(e, m1) has persisted e returns a
\* list whose first element is e, for every pair of modes m1, m2.
C18_ReadableUnderEitherMode ==
    (logLast.op = "getLogs" /\ logLast.entry # <<>>) =>
        /\ logLast.result.t = "list"
        /\ logLast.result.items # <<>>
        /\ logLast.result.items[1] = logLast.entry[1]

\* decoding the stored text under a mode succeeds: plain JSON is read under
\* either mode (directly, or by the fallback), the opaque form under its own
Decodes(data, enabled) ==
    data.enc = "plain" \/ (data.enc = "base64" /\ enabled)

\* C19: for every stored value and either mode getLogs does not raise and
\* returns a list: the decoded list when decoding succeeds with a list, the
\* empty list when the value is absent, undecodable or not a list.
C19_GetLogsReturnsAList ==
    logLast.op = "getLogs" =>
        /\ ~logLast.raised
        /\ logLast.result.t = "list"
        /\ logLast.result =
              IF Decodes(storage, logLast.mode) /\ storage.value.t = "list"
              THEN storage.value ELSE List(<<>>)

\* C20: no saveLog call raises: a rejected storage write or a text the
\* opaque encoding cannot encode does not reach the caller.
C20_SaveLogNeverRaises == logLast.op = "saveLog" => ~logLast.raised

(* ---------------------- claims on the user profile -------------------- *)

\* C21 as stated: updateProfile applied when no session is counted yet (no
\* profile stored) returns and persists avgWpm, avgFlightTime, avgAccuracy and
\* avgMouseVelocity each exactly equal to the session's value, with
\* totalSessions 1.
C21_FirstSessionSetsAveragesExactly ==
    Len(sessions) = 1 =>
        /\ lastProfile.avgWpm = sessions[1].wpm
        /\ lastProfile.avgFlightTime = sessions[1].avgFlightTime
        /\ lastProfile.avgAccuracy = sessions[1].accuracy
        /\ lastProfile.avgMouseVelocity = sessions[1].avgVelocity
        /\ lastProfile.totalSessions = 1
        /\ profile = <<lastProfile>>

\* x is a decimal of the given number of digits nearest to the number value
Nearest(x, value, digits) ==
    /\ x.k = "num" /\ value.k = "num"
    /\ x.v % Step(digits) = 0
    /\ 2 * (x.v - value.v) <= Step(digits)
    /\ 2 * (value.v - x.v) <= Step(digits)

\* C21, amended: updateProfile applied when no session is counted yet returns
\* and persists each average equal to the session's value rounded to two
\* decimals (four for the mouse velocity), with totalSessions 1; an accuracy
\* that is NaN is returned as NaN and persisted as null.
C21_FirstSessionSetsAveragesRounded ==
    Len(sessions) = 1 =>
        /\ Nearest(lastProfile.avgWpm, sessions[1].wpm, 2)
        /\ Nearest(lastProfile.avgFlightTime, sessions[1].avgFlightTime, 2)
        /\ IF sessions[1].accuracy.k = "nan"
           THEN lastProfile.avgAccuracy.k = "nan"
           ELSE Nearest(lastProfile.avgAccuracy, sessions[1].accuracy, 2)
        /\ Nearest(lastProfile.avgMouseVelocity, sessions[1].avgVelocity, 4)
        /\ lastProfile.totalSessions = 1
        /\ Len(profile) = 1
        /\ profile[1].avgWpm = lastProfile.avgWpm
        /\ profile[1].avgFlightTime = lastProfile.avgFlightTime
        /\ profile[1].avgAccuracy =
              IF lastProfile.avgAccuracy.k = "nan" THEN JsonNull
              ELSE lastProfile.avgAccuracy
        /\ profile[1].avgMouseVelocity = lastProfile.avgMouseVelocity
        /\ profile[1].totalSessions = 1

\* the first session had values of more than two (four) decimals and the
\* profile holds them rounded
C21_Witness ==
    /\ Len(sessions) = 1
    /\ profile # <<>>
    /\ lastProfile.avgWpm # sessions[1].wpm
    /\ lastProfile.avgMouseVelocity # sessions[1].avgVelocity

\* the positive avgFlightTime values among the sessions so far
PositiveFlights ==
    {sessions[i].avgFlightTime.v : i \in 1..Len(sessions)} \ {0}

\* C22: sessions with avgFlightTime 0 never pull the running flight-time
\* average toward zero: once a session with a positive avgFlightTime was
\* counted, the stored avgFlightTime lies between the smallest and the
\* largest positive session avgFlightTime, up to the two-decimal rounding.
C22_FlightAverageWithinPositiveSessions ==
    PositiveFlights # {} =>
        \E lo \in PositiveFlights, hi \in PositiveFlights :
            /\ \A x \in PositiveFlights : lo <= x /\ x <= hi
            /\ profile[1].avgFlightTime.v >= lo - Step(2)
            /\ profile[1].avgFlightTime.v <= hi + Step(2)

(* ------------------- claims on calculateMouseMetrics ------------------ *)

\* the elapsed time and the direction of the segment that ends at sample i
SegmentDt(events, i) == events[i].timestamp - events[i - 1].timestamp
SegmentAngle(events, i) ==
    Atan2(events[i].y - events[i - 1].y, events[i].x - events[i - 1].x)

\* the angle change between the segment that ends at sample i and the one
\* before it, counted only when both have a non-zero elapsed time
TurnAt(events, i) ==
    IF i >= 3 /\ SegmentDt(events, i) # 0 /\ SegmentDt(events, i - 1) # 0
    THEN Abs(SegmentAngle(events, i) - SegmentAngle(events, i - 1))
    ELSE 0

\* such a turn made with a segment shorter than 5 pixels
TremorAt(events, i) ==
    LET dx == events[i].x - events[i - 1].x
        dy == events[i].y - events[i - 1].y
    IN IF TurnAt(events, i) >= 1 /\ dx * dx + dy * dy < 5 * 5 THEN 1 ELSE 0

\* C23: calculateMouseMetrics accumulates angle change and tremors only
\* between two segments of consecutive samples that both have a non-zero
\* elapsed time: a segment with dt 0 contributes nothing and the first
\* segment with a non-zero dt contributes no angle change and no tremor, also
\* when the pair at index 1 was skipped.
C23_TurnsOnlyBetweenTimedSegments ==
    Len(mouseEvents) >= 2 =>
        /\ mouseMetrics.tremorCount =
              Sum([i \in 1..Len(mouseEvents) |->
                     IF i = 1 THEN 0 ELSE TremorAt(mouseEvents, i)])
        /\ mouseMetrics.totalTime > 0 =>
              mouseMetrics.totalAngleChange =
                  Sum([i \in 1..Len(mouseEvents) |->
                         IF i = 1 THEN 0 ELSE TurnAt(mouseEvents, i)])

(* ---------------------- claims on the event capture ------------------- *)

\* C24: the key-event buffer has non-decreasing timestamps in buffer order,
\* after any interleaving of keyboard callbacks and bot bursts.
C24_TimestampsNeverDecrease ==
    \A i \in 1..(Len(captured) - 1) :
        captured[i].timestamp <= captured[i + 1].timestamp

\* the events of the buffer that came from the keyboard
FromKeyboard(e) == ~e.isSynthetic

\* C30: each key transition made while the capture is active appends exactly
\* one KeyEvent, and a transition made while it is not active appends none.
C30_OneEventPerTransition ==
    Len(SelectSeq(captured, FromKeyboard)) = strokes

============================================================================
